---- MODULE Spec2Model ----
(***************************************************************************)
(* Model of the invoice-parser web application (valdsab/invoice-parser-app) *)
(*                                                                         *)
(*   - the two client-side normalizers LlamaCloudAPI.normalizeInvoice and  *)
(*     EyelevelAPI.normalizeInvoice (pure functions over JS values),       *)
(*   - the browser UI of static/js/main.js and of the script carried in    *)
(*     static/js/llama-cloud-api.js (upload, poll, timeout, display,       *)
(*     history, create vendor bill),                                       *)
(*   - the server side parse with fallback, which is not part of the       *)
(*     sources at hand and is modelled from the written specification.     *)
(***************************************************************************)
EXTENDS Integers, Sequences, FiniteSets, Bags, TLC

(***************************************************************************)
(* Bounds of the model.                                                    *)
(***************************************************************************)
\* longest line_items array handed to a normalizer
MaxItems == 2

(***************************************************************************)
(* JavaScript values.  A scalar is a record [t, s, n]: t is the type tag,  *)
(* s the characters of a string (one-character strings), n the value of a  *)
(* number.  An absent property reads as undefined, so an object is a       *)
(* record that carries Undefined for the properties it does not have.      *)
(***************************************************************************)
Undefined == [t |-> "undefined", s |-> <<>>, n |-> 0]
Null == [t |-> "null", s |-> <<>>, n |-> 0]
NaN == [t |-> "NaN", s |-> <<>>, n |-> 0]
Str(chars) == [t |-> "string", s |-> chars, n |-> 0]
Num(k) == [t |-> "number", s |-> <<>>, n |-> k]

\* ToBoolean of a scalar
Truthy(v) ==
    CASE v.t = "undefined" -> FALSE
      [] v.t = "null" -> FALSE
      [] v.t = "NaN" -> FALSE
      [] v.t = "string" -> v.s # <<>>
      [] v.t = "number" -> v.n # 0

\* a || b
Or(a, b) == IF Truthy(a) THEN a ELSE b

\* const safe = (v) => v ?? null
safe(v) == IF v.t \in {"undefined", "null"} THEN Null ELSE v

Digits == {"0", "1", "2", "3", "4", "5", "6", "7", "8", "9"}
Upper == {"A", "B", "C", "D", "E", "F", "G", "H", "I", "J", "K", "L", "M",
          "N", "O", "P", "Q", "R", "S", "T", "U", "V", "W", "X", "Y", "Z"}
Whitespace == {" ", "\t", "\n"}

DigitValue(c) ==
    CASE c = "0" -> 0 [] c = "1" -> 1 [] c = "2" -> 2 [] c = "3" -> 3
      [] c = "4" -> 4 [] c = "5" -> 5 [] c = "6" -> 6 [] c = "7" -> 7
      [] c = "8" -> 8 [] c = "9" -> 9

\* the number of characters of s from position i on that lie in cls
RECURSIVE Run(_, _, _)
Run(s, i, cls) ==
    IF i <= Len(s) /\ s[i] \in cls THEN 1 + Run(s, i + 1, cls) ELSE 0

\* the value of the digit string s[i .. i+k-1]
RECURSIVE DigitsValue(_, _, _)
DigitsValue(s, i, k) ==
    IF k = 0 THEN 0
    ELSE 10 * DigitsValue(s, i, k - 1) + DigitValue(s[i + k - 1])

\* parseFloat: a number is returned as it is; a string is parsed after its
\* leading white space as far as it is a decimal literal, and gives NaN when
\* it does not start with one; every other value gives NaN.  The strings of
\* the model carry no fraction and no exponent, so the literal is an integer.
parseFloat(v) ==
    CASE v.t = "number" -> v
      [] v.t = "string" ->
            LET ws == Run(v.s, 1, Whitespace)
                neg == ws + 1 <= Len(v.s) /\ v.s[ws + 1] = "-"
                start == IF neg THEN ws + 2 ELSE ws + 1
                k == Run(v.s, start, Digits)
            IN  IF k = 0 THEN NaN
                ELSE Num((IF neg THEN -1 ELSE 1) * DigitsValue(v.s, start, k))
      [] OTHER -> NaN

(***************************************************************************)
(* The regular expressions of the normalizers, matched the way the         *)
(* backtracking matcher of String.prototype.match does: leftmost start,    *)
(* alternatives in order, greedy quantifiers that give back.               *)
(***************************************************************************)
CapClass == Upper \cup Digits \cup {"-"}
SepClass == {":", "="} \cup Whitespace

HasAt(s, i, lit) ==
    /\ i + Len(lit) - 1 <= Len(s)
    /\ SubSeq(s, i, i + Len(lit) - 1) = lit

\* \s*(\d+) or \s*([A-Z0-9-]+) from position q: where the group starts, 0
\* when the group cannot match (white space given back never helps: the
\* character after it is white space again)
CaptureAt(s, q, cls) ==
    LET p == q + Run(s, q, Whitespace)
    IN  IF Run(s, p, cls) > 0 THEN p ELSE 0

Captured(s, p, cls) ==
    IF p = 0 THEN <<>> ELSE SubSeq(s, p, p + Run(s, p, cls) - 1)

\* /PN:?\s*(\d+)/ tried at start position i
EyelevelPNAt(s, i) ==
    IF ~HasAt(s, i, <<"P", "N">>) THEN 0
    ELSE LET withColon == IF HasAt(s, i + 2, <<":">>)
                          THEN CaptureAt(s, i + 3, Digits) ELSE 0
         IN  IF withColon # 0 THEN withColon ELSE CaptureAt(s, i + 2, Digits)

\* [:=\s]\s*([A-Z0-9-]+) from q
SepThenCapture(s, q) ==
    IF q <= Len(s) /\ s[q] \in SepClass THEN CaptureAt(s, q + 1, CapClass) ELSE 0

\* \s*[:=\s]\s*([A-Z0-9-]+) from q, the first \s* taking k characters, then
\* k-1, ... then none
RECURSIVE WsThenSep(_, _, _)
WsThenSep(s, q, k) ==
    LET r == SepThenCapture(s, q + k)
    IN  IF r # 0 THEN r ELSE IF k = 0 THEN 0 ELSE WsThenSep(s, q, k - 1)

\* (?:q1|q2|...)? and the rest from q: alternative n, n+1, ... then the
\* empty alternative
RECURSIVE QualThen(_, _, _, _)
QualThen(s, q, quals, n) ==
    IF n > Len(quals) THEN WsThenSep(s, q, Run(s, q, Whitespace))
    ELSE LET e == q + Len(quals[n])
             r == IF HasAt(s, q, quals[n])
                  THEN WsThenSep(s, e, Run(s, e, Whitespace)) ELSE 0
         IN  IF r # 0 THEN r ELSE QualThen(s, q, quals, n + 1)

\* \s*(?:q1|...)? and the rest from q, \s* taking k characters, then k-1, ...
RECURSIVE WsThenQual(_, _, _, _)
WsThenQual(s, q, quals, k) ==
    LET r == QualThen(s, q + k, quals, 1)
    IN  IF r # 0 THEN r ELSE IF k = 0 THEN 0 ELSE WsThenQual(s, q, quals, k - 1)

\* (?:k1|k2|...) and the rest at start position i: keyword n, n+1, ...
RECURSIVE KeywordAt(_, _, _, _, _)
KeywordAt(s, i, keys, quals, n) ==
    IF n > Len(keys) THEN 0
    ELSE LET e == i + Len(keys[n])
             r == IF HasAt(s, i, keys[n])
                  THEN WsThenQual(s, e, quals, Run(s, e, Whitespace)) ELSE 0
         IN  IF r # 0 THEN r ELSE KeywordAt(s, i, keys, quals, n + 1)

ProjectKeys == << <<"P","r","o","j","e","c","t">>, <<"P","N">>, <<"J","o","b">> >>
ProjectQuals == << <<"N","u","m","b","e","r">>, <<"#">>, <<"N","o",".">>,
                   <<"N","o">>, <<"I","D">> >>
ActivityKeys == << <<"A","c","t","i","v","i","t","y">>, <<"T","a","s","k">> >>
ActivityQuals == << <<"C","o","d","e">>, <<"#">>, <<"N","o",".">>, <<"N","o">> >>

\* where the capture group of regex rx starts when rx is tried at i (0: no match)
MatchAt(rx, s, i) ==
    CASE rx = "eyelevel_pn" -> EyelevelPNAt(s, i)
      [] rx = "llama_project" -> KeywordAt(s, i, ProjectKeys, ProjectQuals, 1)
      [] rx = "llama_activity" -> KeywordAt(s, i, ActivityKeys, ActivityQuals, 1)

\* desc.match(rx)?.[1] as characters, <<>> when there is no match
RECURSIVE Match(_, _, _)
Match(rx, s, i) ==
    IF i > Len(s) THEN <<>>
    ELSE LET p == MatchAt(rx, s, i)
         IN  IF p # 0
             THEN Captured(s, p, IF rx = "eyelevel_pn" THEN Digits ELSE CapClass)
             ELSE Match(rx, s, i + 1)

\* the outcome of an expression that threw a TypeError
Thrown == [t |-> "throw", s |-> <<>>, n |-> 0]

\* static extractFromDesc(desc, regex)
extractFromDesc(desc, rx) ==
    IF ~Truthy(desc) THEN Null
    ELSE IF desc.t # "string" THEN Thrown     \* desc.match is not a function
    ELSE LET m == Match(rx, desc.s, 1)
         IN  IF m = <<>> THEN Null ELSE Str(m)

(***************************************************************************)
(* normalizeInvoice.  A raw response is a record of scalars; line_items is *)
(* [isArray, items]; a line item is a record of scalars with nul = TRUE    *)
(* for a null entry of the array (reading a property of it throws).        *)
(***************************************************************************)
InvoiceKeys == {"vendor_name", "invoice_number", "invoice_date", "due_date",
                "total_amount", "line_items"}
ItemKeys == {"description", "project_number", "project_name", "activity_code",
             "quantity", "unit_price", "amount", "tax"}

NoInvoice == [none |-> TRUE]
Pending == [state |-> "pending", invoice |-> NoInvoice]
Returned(inv) == [state |-> "returned", invoice |-> inv]
Threw == [state |-> "threw", invoice |-> NoInvoice]

\* the object literal built for one line item by LlamaCloudAPI.normalizeInvoice
LlamaItem(item) ==
    [description |-> Or(item.description, Str(<<>>)),
     project_number |->
        IF Truthy(item.project_number) THEN item.project_number
        ELSE extractFromDesc(item.description, "llama_project"),
     project_name |-> Or(item.project_name, Str(<<>>)),
     activity_code |->
        IF Truthy(item.activity_code) THEN item.activity_code
        ELSE extractFromDesc(item.description, "llama_activity"),
     quantity |-> parseFloat(Or(item.quantity, Num(1))),
     unit_price |-> parseFloat(Or(item.unit_price, Num(0))),
     amount |-> parseFloat(Or(item.amount, Num(0))),
     tax |-> parseFloat(Or(item.tax, Num(0)))]

\* a line item object that lacks the activity_code key
EyelevelItemWithoutCode(item) ==
    [description |-> Or(item.description, Str(<<>>)),
     project_number |->
        IF Truthy(item.project_number) THEN item.project_number
        ELSE extractFromDesc(item.description, "eyelevel_pn"),
     project_name |-> Or(item.project_name, Str(<<>>)),
     quantity |-> parseFloat(Or(item.quantity, Num(1))),
     unit_price |-> parseFloat(Or(item.unit_price, Num(0))),
     amount |-> parseFloat(Or(item.amount, Num(0))),
     tax |-> parseFloat(Or(item.tax, Num(0)))]

\* the object literal built for one line item by EyelevelAPI.normalizeInvoice
EyelevelItem(item) ==
    [description |-> Or(item.description, Str(<<>>)),
     project_number |->
        IF Truthy(item.project_number) THEN item.project_number
        ELSE extractFromDesc(item.description, "eyelevel_pn"),
     project_name |-> Or(item.project_name, Str(<<>>)),
     activity_code |-> Or(item.activity_code, Str(<<>>)),
     quantity |-> parseFloat(Or(item.quantity, Num(1))),
     unit_price |-> parseFloat(Or(item.unit_price, Num(0))),
     amount |-> parseFloat(Or(item.amount, Num(0))),
     tax |-> parseFloat(Or(item.tax, Num(0)))]

\* the callback of line_items.map throws: item is null, or a property
\* initialiser threw
ItemThrows(item, out) ==
    \/ item.nul
    \/ \E k \in DOMAIN out : out[k] = Thrown

\* Array.prototype.map over the line items
MapItems(items, Op(_)) == [i \in 1..Len(items) |-> Op(items[i])]

\* static normalizeInvoice(llamaCloudData) of LlamaCloudAPI
LlamaNormalizeInvoice(llamaCloudData) ==
    LET li == llamaCloudData.line_items
        invoice ==
            [vendor_name |-> safe(llamaCloudData.vendor_name),
             invoice_number |-> safe(llamaCloudData.invoice_number),
             invoice_date |-> safe(llamaCloudData.invoice_date),
             due_date |-> safe(llamaCloudData.due_date),
             total_amount |-> parseFloat(Or(llamaCloudData.total_amount, Num(0))),
             line_items |-> <<>>]
    IN  IF ~li.isArray THEN Returned(invoice)
        ELSE IF \E i \in 1..Len(li.items) :
                    ItemThrows(li.items[i], LlamaItem(li.items[i]))
        THEN Threw
        ELSE Returned([invoice EXCEPT !.line_items = MapItems(li.items, LlamaItem)])

\* eyelevelData.vendor?.name
VendorName(vendor) == IF vendor.kind = "object" THEN vendor.name ELSE Undefined

\* static normalizeInvoice(eyelevelData) of EyelevelAPI
EyelevelNormalizeInvoice(eyelevelData) ==
    LET li == eyelevelData.line_items
        invoice ==
            [vendor_name |-> safe(VendorName(eyelevelData.vendor)),
             invoice_number |-> safe(eyelevelData.invoice_number),
             invoice_date |-> safe(eyelevelData.date),
             due_date |-> safe(eyelevelData.due_date),
             total_amount |-> parseFloat(Or(eyelevelData.total_amount, Num(0))),
             line_items |-> <<>>]
    IN  IF ~li.isArray THEN Returned(invoice)
        ELSE IF \E i \in 1..Len(li.items) :
                    ItemThrows(li.items[i], EyelevelItem(li.items[i]))
        THEN Threw
        ELSE Returned([invoice EXCEPT !.line_items = MapItems(li.items, EyelevelItem)])

(***************************************************************************)
(* The raw responses the normalizers are applied to.                       *)
(***************************************************************************)
Chars(str) ==
    CASE str = "PN: 12" -> <<"P", "N", ":", " ", "1", "2">>
      [] str = "PN12" -> <<"P", "N", "1", "2">>
      [] str = "Task=A-1 Job 7" ->
            <<"T", "a", "s", "k", "=", "A", "-", "1", " ", "J", "o", "b", " ", "7">>
      [] str = "ACME" -> <<"A", "C", "M", "E">>
      [] str = "INV-1" -> <<"I", "N", "V", "-", "1">>
      [] str = "2024-01-31" -> <<"2", "0", "2", "4", "-", "0", "1", "-", "3", "1">>
      [] str = "12" -> <<"1", "2">>
      [] str = "3" -> <<"3">>
      [] str = "7" -> <<"7">>
      [] str = "A1" -> <<"A", "1">>
      [] str = "n/a" -> <<"n", "/", "a">>
      [] str = "" -> <<>>

Descriptions == {Undefined, Str(Chars("")), Str(Chars("PN: 12")), Str(Chars("PN12")),
                 Str(Chars("Task=A-1 Job 7")), Num(5)}

NullItem ==
    [nul |-> TRUE, description |-> Undefined, project_number |-> Undefined,
     project_name |-> Undefined, activity_code |-> Undefined,
     quantity |-> Undefined, unit_price |-> Undefined, amount |-> Undefined,
     tax |-> Undefined]

\* the numeric fields are given (as strings) when the activity code is
RawItems ==
    {NullItem} \cup
    {[nul |-> FALSE, description |-> d, project_number |-> pn,
      project_name |-> IF ac = Undefined THEN Undefined ELSE Str(Chars("ACME")),
      activity_code |-> ac,
      quantity |-> IF ac = Undefined THEN Undefined ELSE Str(Chars("3")),
      unit_price |-> IF ac = Undefined THEN Undefined ELSE Str(Chars("12")),
      amount |-> IF ac = Undefined THEN Undefined ELSE Num(36),
      tax |-> IF ac = Undefined THEN Undefined ELSE Num(0)] :
        d \in Descriptions, pn \in {Undefined, Str(Chars("7"))},
        ac \in {Undefined, Str(Chars("A1"))}}

RECURSIVE SeqsUpTo(_, _)
SeqsUpTo(S, n) ==
    IF n = 0 THEN {<<>>}
    ELSE LET shorter == SeqsUpTo(S, n - 1)
         IN  shorter \cup {Append(q, x) : q \in {r \in shorter : Len(r) = n - 1}, x \in S}

RawLineItems ==
    {[isArray |-> FALSE, items |-> <<>>]} \cup
    {[isArray |-> TRUE, items |-> q] : q \in SeqsUpTo(RawItems, MaxItems)}

\* the header fields: absent, strings, or numbers and unparsable strings;
\* vendorKind is what the Eyelevel response carries as vendor
RawHeaders ==
    {[vendorKind |-> "undefined", vendorName |-> Undefined,
      invoice_number |-> Undefined, date |-> Undefined, due_date |-> Null,
      total_amount |-> Undefined],
     [vendorKind |-> "object", vendorName |-> Str(Chars("ACME")),
      invoice_number |-> Str(Chars("INV-1")), date |-> Str(Chars("2024-01-31")),
      due_date |-> Str(Chars("2024-01-31")), total_amount |-> Str(Chars("12"))],
     [vendorKind |-> "object", vendorName |-> Undefined,
      invoice_number |-> Str(Chars("INV-1")), date |-> Undefined,
      due_date |-> Undefined, total_amount |-> Num(12)],
     [vendorKind |-> "null", vendorName |-> Undefined,
      invoice_number |-> Num(5), date |-> Str(Chars("")),
      due_date |-> Undefined, total_amount |-> Str(Chars("n/a"))]}

\* the same invoice information in the shape of a LlamaCloud response
LlamaShape(h, li) ==
    [vendor_name |-> h.vendorName, invoice_number |-> h.invoice_number,
     invoice_date |-> h.date, due_date |-> h.due_date,
     total_amount |-> h.total_amount, line_items |-> li]

\* ... and in the shape of an Eyelevel response (vendor.name, date)
EyelevelShape(h, li) ==
    [vendor |-> [kind |-> h.vendorKind, name |-> h.vendorName],
     invoice_number |-> h.invoice_number, date |-> h.date,
     due_date |-> h.due_date, total_amount |-> h.total_amount, line_items |-> li]

(***************************************************************************)
(* The browser client.  The repository holds two versions of the page       *)
(* script: static/js/main.js and the script that follows the LlamaCloudAPI  *)
(* class in static/js/llama-cloud-api.js.  variant says which one the page  *)
(* runs; where the two differ the definitions below branch on it.           *)
(***************************************************************************)
\* uploads the model follows (in flight one after the other, or together)
MaxUploads == 2
\* uploads followed where the polling of an upload is followed as well
MaxPolledUploads == 1
MaxInFlight == 2
\* clicks and file selections of the user: on the whole page, and where the
\* user does not look at the history
MaxPageActions == 2
MaxUserActions == 3
MaxTicks == 1
MaxSelections == 1

\* const maxPolls = 20
maxPolls == 20
\* setInterval(..., 3000) and setTimeout(..., 60000)
pollIntervalMs == 3000
processingTimeoutMs == 60000
\* file.size > 16 * 1024 * 1024
MaxFileSize == 16 * 1024 * 1024
AcceptedTypes == {"application/pdf", "image/jpeg", "image/png"}

Variants == {"main", "llama"}
Uploads == 1..MaxUploads
\* invoice 1 is in the database when the page loads; uploads get the next ids
InvoiceIds == 1..(1 + MaxUploads)
Steps == {"upload", "parse", "create"}

VARIABLES
    variant,            \* which page script runs
    currentInvoiceId,   \* let currentInvoiceId
    file,               \* invoiceFileInput.files[0]
    dom,                \* the elements the script writes
    historyRows,        \* the rows of the invoice history table, by invoice id
    up,                 \* the closure of each handleInvoiceUpload call
    net,                \* requests and responses in flight (a bag)
    userActions,        \* how often the user has picked a file or clicked
    srv                 \* the server's invoice records

\* values of currentInvoiceId: null, a number (data.invoice_id, inline
\* onclick argument) or a string (getAttribute('data-invoice-id'))
NullId == [t |-> "null", id |-> 0]
NumberId(id) == [t |-> "number", id |-> id]
StringId(id) == [t |-> "string", id |-> id]

NoFile == [present |-> FALSE, type |-> "", size |-> 0]
Files ==
    {NoFile,
     [present |-> TRUE, type |-> "application/pdf", size |-> MaxFileSize],
     [present |-> TRUE, type |-> "application/pdf", size |-> MaxFileSize + 1],
     [present |-> TRUE, type |-> "image/png", size |-> 1],
     [present |-> TRUE, type |-> "text/plain", size |-> 1]}

\* checks that let a file of any size pass
ValidationErrorAnySize(f) ==
    IF ~f.present THEN "Please select a file to upload."
    ELSE IF f.type \notin AcceptedTypes
    THEN "Invalid file type. Please upload a PDF, JPG, or PNG file."
    ELSE ""

\* the checks of handleInvoiceUpload before anything is changed: the message
\* of the check that fails, "" when the file passes
ValidationError(f) ==
    IF ~f.present THEN "Please select a file to upload."
    ELSE IF f.type \notin AcceptedTypes
    THEN "Invalid file type. Please upload a PDF, JPG, or PNG file."
    ELSE IF f.size > MaxFileSize THEN "File size exceeds the limit of 16MB."
    ELSE ""

\* ---- messages ----
Msg(kind, id, data) == [kind |-> kind, id |-> id, data |-> data]
Send(bag, m) == bag (+) SetToBag({m})
Receive(bag, m) == bag (-) SetToBag({m})
InFlight == BagCardinality(net)
\* a handler that takes `taken` messages and sends `sent` ones can run
Room(taken, sent) == InFlight - taken + sent <= MaxInFlight

\* loadInvoiceHistory(): fetch('/invoices')
loadInvoiceHistory(bag) == Send(bag, Msg("history", 0, ""))

\* ---- the DOM ----
\* classList.remove(...) of updateStepStatus
RemovedClasses ==
    IF variant = "main"
    THEN {"step-pending", "step-processing", "step-complete", "step-error"}
    ELSE {"step-processing", "step-complete", "step-error", "step-waiting"}

\* the class updateStepStatus adds for a status
AddedClass(status) ==
    IF variant = "main"
    THEN CASE status = "complete" -> "step-complete"
           [] status = "processing" -> "step-processing"
           [] status = "error" -> "step-error"
           [] OTHER -> "step-pending"
    ELSE "step-" \o status

\* a step element that keeps the classes it had
updateStepStatusKeeping(d, element, status) ==
    [d EXCEPT !.classList[element] = @ \cup {AddedClass(status)},
              !.lastStatus[element] = status]

\* updateStepStatus(element, status); lastStatus records the call
updateStepStatus(d, element, status) ==
    [d EXCEPT !.classList[element] = (@ \ RemovedClasses) \cup {AddedClass(status)},
              !.lastStatus[element] = status]

showStatus(d, type, message) ==
    [d EXCEPT !.uploadStatus = [type |-> type, message |-> message]]

showVendorBillStatus(d, type, message) ==
    [d EXCEPT !.vendorBillStatus = [type |-> type, message |-> message]]

NoMessage == [type |-> "", message |-> ""]

\* resetProcessingUI()
resetProcessingUI(d) ==
    IF variant = "main"
    THEN LET d1 == [d EXCEPT !.detailsHidden = TRUE]
             d2 == updateStepStatus(d1, "upload", "pending")
             d3 == updateStepStatus(d2, "parse", "pending")
             d4 == updateStepStatus(d3, "create", "pending")
             d5 == showStatus(d4, "info", "Ready to process your invoice.")
         IN  [d5 EXCEPT !.vendorBillStatus = NoMessage, !.stepsHidden = TRUE]
    ELSE LET d1 == [d EXCEPT !.stepsHidden = TRUE]
             d2 == updateStepStatus(d1, "upload", "waiting")
             d3 == updateStepStatus(d2, "parse", "waiting")
         IN  updateStepStatus(d3, "create", "waiting")

\* displayInvoiceDetails(invoiceData), the part that runs at once: the panel
\* is shown with the fields of invoice id, the line items are cleared
ShowDetails(d, id) ==
    [d EXCEPT !.detailsHidden = FALSE, !.shown = id, !.lineItems = "cleared"]

\* a display that also asks for the vendor bill of the invoice
FetchDetailsAndBill(bag, id) ==
    Send(Send(bag, Msg("details", id, "")), Msg("bill", id, ""))

\* ... and its fetch(`/invoices/${invoiceData.id}`)
FetchDetails(bag, id) == Send(bag, Msg("details", id, ""))

\* the text the details response writes into #parser-used
ParserLabel(parser_used) ==
    IF parser_used = "LlamaCloud" THEN "LlamaCloud Primary"
    ELSE IF parser_used = "Eyelevel" THEN "Eyelevel Fallback"
    ELSE IF parser_used = "" THEN "Unknown"
    ELSE parser_used

\* updateStepsFromInvoiceStatus(status)
updateStepsFromInvoiceStatus(d, status) ==
    LET d0 == [d EXCEPT !.stepsHidden = FALSE]
        set(u, p, c) ==
            updateStepStatus(updateStepStatus(updateStepStatus(d0, "upload", u),
                                              "parse", p), "create", c)
    IN  IF variant = "main"
        THEN CASE status = "uploaded" -> set("complete", "pending", "pending")
               [] status = "processing" -> set("complete", "processing", "pending")
               [] status = "parsed" -> set("complete", "complete", "pending")
               [] status = "completed" -> set("complete", "complete", "complete")
               [] status = "error" ->
                    IF d.detailsHidden THEN set("complete", "error", "pending")
                    ELSE set("complete", "complete", "error")
               [] OTHER -> d0
        ELSE LET e1 == updateStepStatus(d0, "upload", "complete")
                 e2 == IF status \in {"uploaded", "processing"}
                       THEN updateStepStatus(e1, "parse", "processing")
                       ELSE IF status \in {"parsed", "completed"}
                       THEN updateStepStatus(e1, "parse", "complete")
                       ELSE IF status = "error"
                       THEN updateStepStatus(e1, "parse", "error")
                       ELSE e1
             IN  IF status = "completed"
                 THEN updateStepStatus(e2, "create", "complete")
                 ELSE updateStepStatus(e2, "create", "waiting")

\* the page as the template delivers it: no step has a status class, the
\* steps and the details panel are hidden, #parser-used holds "-"
InitialDom ==
    [classList |-> [e \in Steps |-> {}],
     lastStatus |-> [e \in Steps |-> "none"],
     stepsHidden |-> TRUE,
     detailsHidden |-> TRUE,
     shown |-> 0,
     lineItems |-> "cleared",
     parserUsed |-> "-",
     parserUsedOf |-> 0,
     rawHeading |-> "",
     rawOf |-> 0,
     uploadStatus |-> NoMessage,
     vendorBillStatus |-> NoMessage,
     uploadBtnDisabled |-> FALSE,
     createBtnDisabled |-> FALSE]

\* ---- the closure of one handleInvoiceUpload call ----
NewUpload ==
    [phase |-> "unused",            \* unused, sent, received (by the server), settled
     invoice |-> 0,                 \* the id the server gave the upload
     uploadedInvoiceId |-> 0,       \* let uploadedInvoiceId = null
     processingTimeout |-> "unset", \* unset, pending, fired, cleared
     pollingInterval |-> "unset",   \* unset, active, cleared
     pollCount |-> 0]

\* a timeout that is due one tick later
TicksBeforeLateTimeout == (processingTimeoutMs + pollIntervalMs) \div pollIntervalMs

\* the interval timer ticks every pollIntervalMs; the timeout is due after
\* processingTimeoutMs, so at most this many ticks come before it
TicksBeforeTimeout == processingTimeoutMs \div pollIntervalMs

(***************************************************************************)
(* The server.  Its code (routes.py, utils.py) is not part of the sources; *)
(* the parse with fallback is modelled from the written specification:     *)
(* "call vendor A; if it throws or returns an unusable shape, call vendor  *)
(* B; ... store the result", "try the next thing once".                    *)
(***************************************************************************)
VendorOutcomes == {"ok", "threw", "unusable"}

NoRecord ==
    [status |-> "none", deleted |-> FALSE, parser_used |-> "", calls |-> <<>>,
     primary |-> "none", secondary |-> "none", stored |-> "none", bills |-> 0]

\* invoice 1 was parsed before the page was loaded: the primary vendor
\* threw, the secondary vendor's response was stored
ExistingInvoice ==
    [NoRecord EXCEPT !.status = "parsed", !.parser_used = "Eyelevel",
                     !.calls = <<"primary", "secondary">>, !.primary = "threw",
                     !.secondary = "ok", !.stored = "secondary"]

\* the outcome of the primary call sends the parse to the secondary vendor
\* only when the outcome is an exception
NeedsFallbackOnThrowOnly(outcome) == outcome = "threw"

\* the outcome of the primary call sends the parse to the secondary vendor
NeedsFallback(outcome) == outcome \in {"threw", "unusable"}

\* a parse that calls a vendor again whose call failed
MayCallRetrying(r, vendor) ==
    /\ r.status = "processing"
    /\ Len(r.calls) < 3
    /\ IF vendor = "primary" THEN r.primary # "ok" /\ r.secondary = "none"
       ELSE NeedsFallback(r.primary) /\ r.secondary # "ok"

\* the parse of record r calls the vendor next
MayCall(r, vendor) ==
    /\ r.status = "processing"
    /\ IF vendor = "primary" THEN r.calls = <<>>
       ELSE r.calls = <<"primary">> /\ NeedsFallback(r.primary)

\* the record after the primary vendor answered
AfterPrimary(r, outcome) ==
    LET called == [r EXCEPT !.calls = Append(@, "primary"), !.primary = outcome]
    IN  IF NeedsFallback(outcome) THEN called
        ELSE [called EXCEPT !.stored = "primary", !.parser_used = "LlamaCloud",
                            !.status = "parsed"]

\* the record after the secondary vendor answered
AfterSecondary(r, outcome) ==
    LET called == [r EXCEPT !.calls = Append(@, "secondary"), !.secondary = outcome]
    IN  IF outcome = "ok"
        THEN [called EXCEPT !.stored = "secondary", !.parser_used = "Eyelevel",
                            !.status = "parsed"]
        ELSE [called EXCEPT !.status = "error"]

\* the status a GET /invoices/<id> reports; "gone" when there is no invoice
ReportedStatus(id) ==
    IF id \notin InvoiceIds \/ srv[id].status = "none" \/ srv[id].deleted
    THEN "gone" ELSE srv[id].status

VARIABLES llamaCloudData, eyelevelData, llamaResult, eyelevelResult

normVars == <<llamaCloudData, eyelevelData, llamaResult, eyelevelResult>>

VARIABLES
    invoiceData,        \* the argument of ZohoAPI.formatVendorBillData
    vendorBillData,     \* what formatVendorBillData returned
    deluge              \* the outcome of the Deluge function vendorBillCreate

zohoVars == <<invoiceData, vendorBillData, deluge>>
uiVars == <<variant, currentInvoiceId, file, dom, historyRows, up, net, userActions>>
vars == <<normVars, zohoVars, uiVars, srv>>

\* the page right after DOMContentLoaded: init() has called loadInvoiceHistory
InitPage ==
    /\ currentInvoiceId = NullId
    /\ file = NoFile
    /\ dom = InitialDom
    /\ historyRows = [id \in InvoiceIds |-> "absent"]
    /\ up = [u \in Uploads |-> NewUpload]
    /\ net = loadInvoiceHistory(EmptyBag)
    /\ userActions = 0

(***************************************************************************)
(* ZohoAPI.formatVendorBillData and the Deluge function vendorBillCreate   *)
(* that reads what it produces.  The argument is a parsed invoice: a       *)
(* record of scalars with nul = TRUE for null or undefined, line_items as  *)
(* for the normalizers.                                                    *)
(***************************************************************************)
\* the keys vendorBillCreate reads from its argument and from a line item
DelugeInvoiceKeys == {"vendor_name", "bill_number", "date", "due_date", "total",
                      "line_items"}
DelugeItemKeys == {"name", "quantity", "rate", "tax"}

\* a line item whose tax is passed on as it is
ZohoLineItemRawTax(item) ==
    [name |-> item.description, quantity |-> item.quantity,
     rate |-> item.unit_price, tax |-> item.tax]

\* the object literal built for one line item by formatVendorBillData
ZohoLineItem(item) ==
    [name |-> item.description, quantity |-> item.quantity,
     rate |-> item.unit_price, tax |-> Or(item.tax, Num(0))]

\* static formatVendorBillData(invoiceData): a TypeError in the try block (a
\* property read of null or undefined) ends in the Error thrown by the catch
formatVendorBillData(inv) ==
    IF inv.nul THEN Threw
    ELSE LET li == inv.line_items
             vendorBill ==
                 [vendor_name |-> inv.vendor_name,
                  bill_number |-> inv.invoice_number,
                  date |-> inv.invoice_date,
                  due_date |-> inv.due_date,
                  total |-> inv.total_amount,
                  line_items |-> <<>>]
         IN  IF ~li.isArray THEN Returned(vendorBill)
             ELSE IF \E i \in 1..Len(li.items) : li.items[i].nul THEN Threw
             ELSE Returned([vendorBill EXCEPT
                               !.line_items = MapItems(li.items, ZohoLineItem)])

\* the line items of a parsed invoice: a null entry, and objects whose tax is
\* absent, null, 0, '' or a positive number
ParsedItems ==
    {[nul |-> TRUE, description |-> Undefined, quantity |-> Undefined,
      unit_price |-> Undefined, tax |-> Undefined]} \cup
    {[nul |-> FALSE, description |-> d, quantity |-> q,
      unit_price |-> IF q = Num(1) THEN Num(0) ELSE Num(12), tax |-> x] :
        d \in {Str(Chars("")), Str(Chars("PN12"))}, q \in {Num(1), Num(3)},
        x \in {Undefined, Null, Num(0), Str(Chars("")), Num(2)}}

\* line_items of a parsed invoice: absent (or no array), or an array
ParsedLineItems ==
    {[isArray |-> FALSE, items |-> <<>>]} \cup
    {[isArray |-> TRUE, items |-> q] : q \in SeqsUpTo(ParsedItems, MaxItems)}

NullParsedInvoice ==
    [nul |-> TRUE, vendor_name |-> Undefined, invoice_number |-> Undefined,
     invoice_date |-> Undefined, due_date |-> Undefined,
     total_amount |-> Undefined, line_items |-> [isArray |-> FALSE, items |-> <<>>]]

\* the invoices formatVendorBillData is applied to: null, and objects with
\* the header fields null (what safe() leaves of an absent field), given, or
\* given in part
ParsedInvoices ==
    {NullParsedInvoice} \cup
    {[nul |-> FALSE, vendor_name |-> h[1], invoice_number |-> h[2],
      invoice_date |-> h[3], due_date |-> h[4], total_amount |-> h[5],
      line_items |-> li] :
        h \in {<<Null, Null, Null, Null, Num(0)>>,
                <<Str(Chars("ACME")), Str(Chars("INV-1")), Str(Chars("2024-01-31")),
                  Str(Chars("2024-01-31")), Num(12)>>,
                <<Str(Chars("ACME")), Str(Chars("INV-1")), Str(Chars("2024-01-31")),
                  Undefined, Num(12)>>},
        li \in ParsedLineItems}

\* vendorBillCreate has not been called
DelugeIdle == [state |-> "idle"]

\* nothing is being formatted
ZohoIdle ==
    /\ invoiceData = NullParsedInvoice
    /\ vendorBillData = Pending
    /\ deluge = DelugeIdle

\* no response is being normalized
NormIdle ==
    /\ llamaCloudData = LlamaShape(CHOOSE h \in RawHeaders : h.vendorKind = "undefined",
                                   [isArray |-> FALSE, items |-> <<>>])
    /\ eyelevelData = EyelevelShape(CHOOSE h \in RawHeaders : h.vendorKind = "undefined",
                                    [isArray |-> FALSE, items |-> <<>>])
    /\ llamaResult = Pending
    /\ eyelevelResult = Pending

InitNorm ==
    /\ \E h \in RawHeaders, li \in RawLineItems :
            /\ llamaCloudData = LlamaShape(h, li)
            /\ eyelevelData = EyelevelShape(h, li)
    /\ llamaResult = Pending
    /\ eyelevelResult = Pending
    /\ ZohoIdle
    /\ variant = "main"
    /\ InitPage
    /\ srv = [id \in InvoiceIds |-> NoRecord]

\* LlamaCloudAPI.normalizeInvoice(llamaCloudData)
NormalizeLlama ==
    /\ llamaResult = Pending
    /\ llamaResult' = LlamaNormalizeInvoice(llamaCloudData)
    /\ UNCHANGED <<llamaCloudData, eyelevelData, eyelevelResult, zohoVars, uiVars, srv>>

\* EyelevelAPI.normalizeInvoice(eyelevelData)
NormalizeEyelevel ==
    /\ eyelevelResult = Pending
    /\ eyelevelResult' = EyelevelNormalizeInvoice(eyelevelData)
    /\ UNCHANGED <<llamaCloudData, eyelevelData, llamaResult, zohoVars, uiVars, srv>>

NextNorm == NormalizeLlama \/ NormalizeEyelevel

SpecNorm == InitNorm /\ [][NextNorm]_vars

\* a parsed invoice is at hand, nothing else runs
InitZoho ==
    /\ invoiceData \in ParsedInvoices
    /\ vendorBillData = Pending
    /\ deluge = DelugeIdle
    /\ NormIdle
    /\ variant = "main"
    /\ InitPage
    /\ srv = [id \in InvoiceIds |-> NoRecord]

\* ZohoAPI.formatVendorBillData(invoiceData)
FormatVendorBillData ==
    /\ vendorBillData = Pending
    /\ vendorBillData' = formatVendorBillData(invoiceData)
    /\ UNCHANGED <<invoiceData, deluge, normVars, uiVars, srv>>

\* ---- the Deluge function vendorBillCreate ----
\* the calls of logInfo and logError, each a zoho.books.createRecord("Logs")
LogSites == {"start", "notFound", "created", "rejected", "catch"}
\* what zoho.books.getRecords("Vendors") and createRecord("VendorBills") do:
\* raise, or answer (no vendor or some; code 0 or another code)
SearchOutcomes == {"raises", "empty", "found"}
CreateOutcomes == {"raises", "code0", "rejected"}

NoBill == [none |-> TRUE]

\* the line item map: tax is put only when it is greater than 0
DelugeLineItem(item) ==
    [name |-> item.name, quantity |-> item.quantity, rate |-> item.rate,
     tax |-> IF item.tax.t = "number" /\ item.tax.n > 0 THEN item.tax ELSE Undefined]

\* vendorBillMap: the dates are put only when they are not null
VendorBillMap(data) ==
    [vendor_id |-> 1,
     bill_number |-> data.bill_number,
     date |-> IF data.date \in {Undefined, Null} THEN Undefined ELSE data.date,
     due_date |-> IF data.due_date \in {Undefined, Null} THEN Undefined
                  ELSE data.due_date,
     line_items |-> MapItems(data.line_items, DelugeLineItem)]

\* the ways vendorBillCreate ends: a returned map, or an exception that
\* leaves the function.  found: the vendor lookup returned a vendor; code:
\* the code of the create response; bill: the VendorBills record created;
\* raised: a call raised an exception on the way
DelugeReturned(success, error, id, found, code, bill, raised) ==
    [state |-> "returned", success |-> success, error |-> error,
     vendor_bill_id |-> id, found |-> found, code |-> code, bill |-> bill,
     raised |-> raised]
DelugeEscaped(found, code, bill) ==
    [state |-> "escaped", success |-> FALSE, error |-> "", vendor_bill_id |-> 0,
     found |-> found, code |-> code, bill |-> bill, raised |-> TRUE]

\* the catch block: logError, then the map with success false
DelugeCatch(raises, found, code, bill) ==
    IF raises["catch"] THEN DelugeEscaped(found, code, bill)
    ELSE DelugeReturned(FALSE, "Exception: ...", 0, found, code, bill, TRUE)

\* vendorBillCreate(invoiceData) with the outcomes of the calls it makes
vendorBillCreate(data, raises, search, create) ==
    IF raises["start"] \/ search = "raises"
    THEN DelugeCatch(raises, FALSE, "none", NoBill)
    ELSE IF search = "empty"
    THEN IF raises["notFound"] THEN DelugeCatch(raises, FALSE, "none", NoBill)
         ELSE DelugeReturned(FALSE, "Vendor not found: ...", 0, FALSE, "none",
                             NoBill, FALSE)
    ELSE IF create = "raises" THEN DelugeCatch(raises, TRUE, "none", NoBill)
    ELSE IF create = "code0"
    THEN IF raises["created"]
         THEN DelugeCatch(raises, TRUE, "0", VendorBillMap(data))
         ELSE DelugeReturned(TRUE, "", 1, TRUE, "0", VendorBillMap(data), FALSE)
    ELSE IF raises["rejected"] THEN DelugeCatch(raises, TRUE, "other", NoBill)
         ELSE DelugeReturned(FALSE, "message", 0, TRUE, "other", NoBill, FALSE)

\* the Deluge function is called with the formatted invoice
VendorBillCreate ==
    /\ deluge = DelugeIdle
    /\ vendorBillData.state = "returned"
    /\ \E raises \in [LogSites -> BOOLEAN], search \in SearchOutcomes,
          create \in CreateOutcomes :
            deluge' = vendorBillCreate(vendorBillData.invoice, raises, search, create)
    /\ UNCHANGED <<invoiceData, vendorBillData, normVars, uiVars, srv>>

NextZoho == FormatVendorBillData \/ VendorBillCreate

SpecZoho == InitZoho /\ [][NextZoho]_vars

(***************************************************************************)
(* The page and the server as one system.  A handler runs to completion    *)
(* (the page script is single threaded), so each handler is one action.    *)
(* Reads of the server (history, view, details) are answered and handled   *)
(* in one step; polls, bill creation and deletes are answered by the       *)
(* server in one step and handled by the page in a later one.              *)
(***************************************************************************)
Init ==
    /\ variant \in Variants
    /\ InitPage
    /\ srv = [id \in InvoiceIds |-> IF id = 1 THEN ExistingInvoice ELSE NoRecord]
    /\ NormIdle
    /\ ZohoIdle

\* ---- the user and the upload form ----
\* 'change' on the file input
SelectFile(f) ==
    /\ f # file
    /\ userActions < MaxUserActions
    /\ userActions' = userActions + 1
    /\ file' = f
    /\ dom' = resetProcessingUI(dom)
    /\ UNCHANGED <<variant, currentInvoiceId, historyRows, up, net, srv, normVars, zohoVars>>

\* handleInvoiceUpload(event): 'submit' on the form, which the browser does
\* not deliver while the submit button is disabled
handleInvoiceUpload ==
    /\ ~dom.uploadBtnDisabled
    /\ IF ValidationError(file) # ""
       THEN /\ dom' = showStatus(dom, "error", ValidationError(file))
            /\ UNCHANGED up
       ELSE /\ \E u \in Uploads :
                  /\ up[u].phase = "unused"
                  /\ \A v \in Uploads : v < u => up[v].phase # "unused"
                  /\ up' = [up EXCEPT ![u].phase = "sent"]
            /\ LET d1 == [resetProcessingUI(dom) EXCEPT !.stepsHidden = FALSE]
                   d2 == updateStepStatus(d1, "upload", "processing")
                   d3 == [d2 EXCEPT !.uploadBtnDisabled = TRUE]
               IN  dom' = showStatus(d3, "info", "Uploading invoice file...")
    /\ UNCHANGED <<userActions, variant, currentInvoiceId, file, historyRows, net, srv, normVars, zohoVars>>

\* ---- the server: upload and parse ----
\* POST /upload arrives: the invoice gets the next id
SrvReceiveUpload(u) ==
    /\ up[u].phase = "sent"
    /\ \E id \in InvoiceIds :
          /\ srv[id].status = "none"
          /\ \A j \in InvoiceIds : j < id => srv[j].status # "none"
          /\ srv' = [srv EXCEPT ![id].status = "uploaded"]
          /\ up' = [up EXCEPT ![u].phase = "received", ![u].invoice = id]
    /\ UNCHANGED <<userActions, variant, currentInvoiceId, file, dom, historyRows, net, normVars, zohoVars>>

SrvStartParse(id) ==
    /\ srv[id].status = "uploaded"
    /\ srv' = [srv EXCEPT ![id].status = "processing"]
    /\ UNCHANGED <<uiVars, normVars, zohoVars>>

SrvCallPrimary(id, outcome) ==
    /\ MayCall(srv[id], "primary")
    /\ srv' = [srv EXCEPT ![id] = AfterPrimary(@, outcome)]
    /\ UNCHANGED <<uiVars, normVars, zohoVars>>

SrvCallSecondary(id, outcome) ==
    /\ MayCall(srv[id], "secondary")
    /\ srv' = [srv EXCEPT ![id] = AfterSecondary(@, outcome)]
    /\ UNCHANGED <<uiVars, normVars, zohoVars>>

\* ---- the upload response ----
\* what the then-handler does when data.success holds
UploadSucceeded(u, id, status) ==
    LET d1 == updateStepStatus(dom, "upload", "complete")
    IN  /\ currentInvoiceId' = NumberId(id)
        /\ IF status = "parsed"
           THEN /\ Room(0, 2)
                /\ dom' = [ShowDetails(
                              showStatus(updateStepStatus(d1, "parse", "complete"),
                                  "success", "Invoice uploaded and parsed successfully!"),
                              id)
                           EXCEPT !.uploadBtnDisabled = FALSE]
                /\ net' = loadInvoiceHistory(FetchDetails(net, id))
                /\ up' = [up EXCEPT ![u].phase = "settled",
                                    ![u].uploadedInvoiceId = id]
           ELSE /\ dom' = [showStatus(updateStepStatus(d1, "parse", "processing"),
                               "info", "Invoice uploaded. Processing document...")
                           EXCEPT !.uploadBtnDisabled = FALSE]
                /\ net' = net
                /\ up' = [up EXCEPT ![u].phase = "settled",
                                    ![u].uploadedInvoiceId = id,
                                    ![u].processingTimeout = "pending",
                                    ![u].pollingInterval = "active",
                                    ![u].pollCount = 0]

\* the response of POST /upload with success: true
UploadResponse(u) ==
    /\ up[u].phase = "received"
    /\ srv[up[u].invoice].status # "error"
    /\ UploadSucceeded(u, up[u].invoice, srv[up[u].invoice].status)
    /\ UNCHANGED <<userActions, variant, file, historyRows, srv, normVars, zohoVars>>

\* a response with success: false that is taken for the current invoice
UploadRejectedSetsInvoice(u) ==
    /\ \/ up[u].phase = "sent"
       \/ up[u].phase = "received" /\ srv[up[u].invoice].status = "error"
    /\ up' = [up EXCEPT ![u].phase = "settled"]
    /\ currentInvoiceId' = NumberId(up[u].invoice)
    /\ dom' = [showStatus(updateStepStatus(updateStepStatus(dom, "upload", "complete"),
                                           "parse", "error"),
                          "error", "Error parsing invoice: ...")
               EXCEPT !.uploadBtnDisabled = FALSE]
    /\ UNCHANGED <<userActions, variant, file, historyRows, net, srv, normVars, zohoVars>>

\* the response with success: false: the server refused the file, or the
\* parse had failed when it answered
UploadRejected(u) ==
    /\ \/ up[u].phase = "sent"
       \/ up[u].phase = "received" /\ srv[up[u].invoice].status = "error"
    /\ up' = [up EXCEPT ![u].phase = "settled"]
    /\ dom' = [showStatus(updateStepStatus(updateStepStatus(dom, "upload", "complete"),
                                           "parse", "error"),
                          "error", "Error parsing invoice: ...")
               EXCEPT !.uploadBtnDisabled = FALSE]
    /\ UNCHANGED <<userActions, variant, currentInvoiceId, file, historyRows, net, srv, normVars, zohoVars>>

\* a catch handler that no finally handler follows
UploadFailedWithoutFinally(u) ==
    /\ up[u].phase \in {"sent", "received"}
    /\ up' = [up EXCEPT ![u].phase = "settled"]
    /\ dom' = showStatus(updateStepStatus(dom, "upload", "error"),
                         "error", "An error occurred: ...")
    /\ UNCHANGED <<userActions, variant, currentInvoiceId, file, historyRows, net, srv, normVars, zohoVars>>

\* the request fails or the response is no JSON: the catch handler, followed
\* by the finally handler
UploadFailed(u) ==
    /\ up[u].phase \in {"sent", "received"}
    /\ up' = [up EXCEPT ![u].phase = "settled"]
    /\ dom' = [showStatus(updateStepStatus(dom, "upload", "error"),
                          "error", "An error occurred: ...")
               EXCEPT !.uploadBtnDisabled = FALSE]
    /\ UNCHANGED <<userActions, variant, currentInvoiceId, file, historyRows, net, srv, normVars, zohoVars>>

\* ---- polling ----
\* the setInterval callback: pollCount++ and fetch(`/invoices/${uploadedInvoiceId}`)
PollTick(u) ==
    /\ up[u].pollingInterval = "active"
    /\ up[u].pollCount < TicksBeforeTimeout
    /\ Room(0, 1)
    /\ up' = [up EXCEPT ![u].pollCount = @ + 1]
    /\ net' = Send(net, Msg("poll", u, ""))
    /\ UNCHANGED <<userActions, variant, currentInvoiceId, file, dom, historyRows, srv, normVars, zohoVars>>

\* the server answers a poll with the status the invoice has now
SrvAnswerPoll(u) ==
    /\ BagIn(Msg("poll", u, ""), net)
    /\ net' = Send(Receive(net, Msg("poll", u, "")),
                   Msg("poll", u, ReportedStatus(up[u].uploadedInvoiceId)))
    /\ UNCHANGED <<userActions, variant, currentInvoiceId, file, dom, historyRows, up, srv, normVars, zohoVars>>

\* clearInterval(pollingInterval); clearTimeout(processingTimeout): a timeout
\* that has fired stays fired
StopPolling(c) ==
    [c EXCEPT !.pollingInterval = "cleared",
              !.processingTimeout = IF @ = "pending" THEN "cleared" ELSE @]

\* pollCount lives in the closure of the upload; once the interval timer is
\* cleared and no poll is in flight nothing can read it any more, and the
\* model forgets it
Forget(c, bag, u) ==
    IF c.pollingInterval # "active"
       /\ \A m \in BagToSet(bag) : ~(m.kind = "poll" /\ m.id = u)
    THEN [c EXCEPT !.pollCount = 0] ELSE c

\* a poll handler that marks the parse step complete but leaves the timers
\* running
PollParsedStillPolling(u, bag) ==
    /\ up' = up
    /\ dom' = ShowDetails(showStatus(updateStepStatus(dom, "parse", "complete"),
                                     "success", "Invoice parsed successfully!"),
                          up[u].uploadedInvoiceId)
    /\ net' = loadInvoiceHistory(FetchDetails(bag, up[u].uploadedInvoiceId))

\* the then-handler of a poll, status 'parsed' or 'completed'; bag is what is
\* in flight besides the response
PollParsed(u, bag) ==
    /\ up' = [up EXCEPT ![u] = Forget(StopPolling(@), bag, u)]
    /\ dom' = ShowDetails(showStatus(updateStepStatus(dom, "parse", "complete"),
                                     "success", "Invoice parsed successfully!"),
                          up[u].uploadedInvoiceId)
    /\ net' = loadInvoiceHistory(FetchDetails(bag, up[u].uploadedInvoiceId))

\* the then-handler of a poll, status 'error', and its last branch
\* (pollCount >= maxPolls): polling and timeout stop, the parse step fails
PollStopped(u, message, bag) ==
    /\ up' = [up EXCEPT ![u] = Forget(StopPolling(@), bag, u)]
    /\ dom' = showStatus(updateStepStatus(dom, "parse", "error"), "error", message)
    /\ net' = loadInvoiceHistory(bag)

\* the response of a poll arrives
PollResponse(u, status) ==
    /\ status \notin {"", "gone"}
    /\ BagIn(Msg("poll", u, status), net)
    /\ LET bag == Receive(net, Msg("poll", u, status))
       IN  IF status \in {"parsed", "completed"}
           THEN Room(1, 2) /\ PollParsed(u, bag)
           ELSE IF status = "error"
           THEN PollStopped(u, "Error parsing invoice: ...", bag)
           ELSE IF up[u].pollCount >= maxPolls
           THEN PollStopped(u,
                    "Invoice processing took too long. Please check the invoice history for status updates.",
                    bag)
           ELSE /\ net' = bag
                /\ up' = [up EXCEPT ![u] = Forget(@, bag, u)]
                /\ dom' = dom
    /\ UNCHANGED <<userActions, variant, currentInvoiceId, file, historyRows, srv, normVars, zohoVars>>

\* a poll fails (no connection, no JSON, no invoice in the answer): the
\* catch handler logs it and polling goes on
PollFailed(u) ==
    /\ \E m \in BagToSet(net) :
          /\ m.kind = "poll" /\ m.id = u
          /\ net' = Receive(net, m)
          /\ up' = [up EXCEPT ![u] = Forget(@, Receive(net, m), u)]
    /\ UNCHANGED <<userActions, variant, currentInvoiceId, file, dom, historyRows, srv, normVars, zohoVars>>

\* a timeout callback that leaves the interval timer running
TimeoutKeepsPolling(u) ==
    /\ up[u].processingTimeout = "pending"
    /\ Room(0, 1)
    /\ up' = [up EXCEPT ![u].processingTimeout = "fired"]
    /\ dom' = showStatus(updateStepStatus(dom, "parse", "error"), "error",
          "Invoice processing timed out. Please check the invoice history for status updates.")
    /\ net' = loadInvoiceHistory(net)
    /\ UNCHANGED <<userActions, variant, currentInvoiceId, file, historyRows, srv, normVars, zohoVars>>

\* the setTimeout callback, processingTimeoutMs after the upload response
ProcessingTimeout(u) ==
    /\ up[u].processingTimeout = "pending"
    /\ Room(0, 1)
    /\ up' = [up EXCEPT ![u] = Forget([@ EXCEPT !.processingTimeout = "fired",
                                                 !.pollingInterval = "cleared"],
                                       net, u)]
    /\ dom' = showStatus(updateStepStatus(dom, "parse", "error"), "error",
          "Invoice processing timed out. Please check the invoice history for status updates.")
    /\ net' = loadInvoiceHistory(net)
    /\ UNCHANGED <<userActions, variant, currentInvoiceId, file, historyRows, srv, normVars, zohoVars>>

\* ---- the invoice history ----
\* the response of GET /invoices: the table is rebuilt
HistoryResponse ==
    /\ BagIn(Msg("history", 0, ""), net)
    /\ net' = Receive(net, Msg("history", 0, ""))
    /\ historyRows' = [id \in InvoiceIds |->
                          IF ReportedStatus(id) = "gone" THEN "absent"
                          ELSE ReportedStatus(id)]
    /\ UNCHANGED <<userActions, variant, currentInvoiceId, file, dom, up, srv, normVars, zohoVars>>

\* GET /invoices fails: the table holds the error row only
HistoryFailed ==
    /\ BagIn(Msg("history", 0, ""), net)
    /\ net' = Receive(net, Msg("history", 0, ""))
    /\ historyRows' = [id \in InvoiceIds |-> "absent"]
    /\ UNCHANGED <<userActions, variant, currentInvoiceId, file, dom, up, srv, normVars, zohoVars>>

\* the id a history button hands to its handler: the data-invoice-id
\* attribute (a string) in main.js, the inline onclick argument (a number)
\* in the other script
RowId(id) == IF variant = "main" THEN StringId(id) ELSE NumberId(id)

\* click on the view button of a row: viewInvoice(invoiceId) sends its fetch
ClickView(id) ==
    /\ historyRows[id] # "absent"
    /\ userActions < MaxUserActions
    /\ userActions' = userActions + 1
    /\ Room(0, 1)
    /\ net' = Send(net, Msg("view", id, ""))
    /\ UNCHANGED <<variant, currentInvoiceId, file, dom, historyRows, up, srv, normVars, zohoVars>>

\* the then-handler of viewInvoice
ViewResponse(id) ==
    /\ BagIn(Msg("view", id, ""), net)
    /\ ReportedStatus(id) # "gone"
    /\ Room(1, 1)
    /\ currentInvoiceId' = RowId(id)
    /\ dom' = updateStepsFromInvoiceStatus(ShowDetails(dom, id), ReportedStatus(id))
    /\ net' = FetchDetails(Receive(net, Msg("view", id, "")), id)
    /\ UNCHANGED <<userActions, variant, file, historyRows, up, srv, normVars, zohoVars>>

\* viewInvoice fails.  Without a JSON answer nothing but the message
\* changes; with a JSON answer that holds no invoice (the invoice is gone)
\* currentInvoiceId is set and the panel is shown before
\* displayInvoiceDetails(undefined) throws
ViewFailed(id, json) ==
    /\ BagIn(Msg("view", id, ""), net)
    /\ json => ReportedStatus(id) = "gone"
    /\ net' = Receive(net, Msg("view", id, ""))
    /\ currentInvoiceId' = IF json THEN RowId(id) ELSE currentInvoiceId
    /\ dom' = showStatus(IF json THEN [dom EXCEPT !.detailsHidden = FALSE] ELSE dom,
                         "error", "Error loading invoice details: ...")
    /\ UNCHANGED <<userActions, variant, file, historyRows, up, srv, normVars, zohoVars>>

\* whether the answer of GET /invoices/<id> holds raw OCR data under the
\* keys the page script reads: raw_extraction_data or raw_xray_data for a
\* parsed invoice in the script that reads these; parsed_data.raw_response,
\* which a parsed invoice may hold or not, in main.js; none before the
\* invoice is parsed
RawAnswers(id) ==
    IF srv[id].stored = "none" THEN {FALSE}
    ELSE IF variant = "main" THEN BOOLEAN
    ELSE {TRUE}

\* the parser the raw OCR data of invoice id came from
RawParser(id) == IF srv[id].stored = "primary" THEN "LlamaCloud" ELSE "Eyelevel.ai"

\* the parser the heading of the raw OCR data section names: the fixed
\* 'Raw OCR Data (Eyelevel.ai)' of main.js, dataSourceName in the other script
RawHeading(id) == IF variant = "main" THEN "Eyelevel.ai" ELSE RawParser(id)

\* the raw OCR data section after the details response of invoice id: the
\* section is created or rewritten when the answer holds raw data, and left
\* as it is when it holds none
WriteRawSection(d, id, raw) ==
    IF raw THEN [d EXCEPT !.rawHeading = RawHeading(id), !.rawOf = id] ELSE d

\* the then-handler of the fetch of displayInvoiceDetails: the line items,
\* in the script that has the parser label #parser-used, and the raw OCR
\* data section
DetailsResponse(id) ==
    /\ BagIn(Msg("details", id, ""), net)
    /\ ReportedStatus(id) # "gone"
    /\ net' = Receive(net, Msg("details", id, ""))
    /\ \E raw \in RawAnswers(id) :
          dom' = IF variant = "main"
                 THEN WriteRawSection([dom EXCEPT !.lineItems = "loaded"], id, raw)
                 ELSE WriteRawSection(
                          [dom EXCEPT !.lineItems = "loaded",
                                      !.parserUsed = ParserLabel(srv[id].parser_used),
                                      !.parserUsedOf = id], id, raw)
    /\ UNCHANGED <<userActions, variant, currentInvoiceId, file, historyRows, up, srv, normVars, zohoVars>>

\* the catch handler of that fetch: the error row.  With a JSON answer that
\* holds no invoice the label is written before data.invoice.parsed_data throws
DetailsFailed(id, json) ==
    /\ BagIn(Msg("details", id, ""), net)
    /\ json => ReportedStatus(id) = "gone"
    /\ net' = Receive(net, Msg("details", id, ""))
    /\ dom' = IF json /\ variant = "llama"
              THEN [dom EXCEPT !.lineItems = "error", !.parserUsed = ParserLabel(""),
                               !.parserUsedOf = id]
              ELSE [dom EXCEPT !.lineItems = "error"]
    /\ UNCHANGED <<userActions, variant, currentInvoiceId, file, historyRows, up, srv, normVars, zohoVars>>

\* ---- creating a vendor bill ----
\* a createVendorBill() that does not look at currentInvoiceId
createVendorBillUnguarded(cur) ==
    /\ Room(0, 1)
    /\ dom' = showVendorBillStatus(
                 [updateStepStatus(dom, "create", "processing")
                  EXCEPT !.createBtnDisabled = TRUE],
                 "info", "Creating vendor bill in Zoho Books...")
    /\ net' = Send(net, Msg("bill", cur.id, ""))

\* createVendorBill() with cur as the value of currentInvoiceId
createVendorBill(cur) ==
    IF cur = NullId
    THEN /\ dom' = showVendorBillStatus(dom, "error", "No invoice selected.")
         /\ net' = net
    ELSE /\ Room(0, 1)
         /\ dom' = showVendorBillStatus(
                      [updateStepStatus(dom, "create", "processing")
                       EXCEPT !.createBtnDisabled = TRUE],
                      "info", "Creating vendor bill in Zoho Books...")
         /\ net' = Send(net, Msg("bill", cur.id, ""))

\* ZohoAPI.createVendorBill(invoiceId), up to its fetch: the promise is
\* rejected at once, or the request is sent
ZohoCreateVendorBill(invoiceId) ==
    IF ~Truthy(invoiceId)
    THEN [fetched |-> FALSE, rejected |-> "Invoice ID is required"]
    ELSE [fetched |-> TRUE, rejected |-> ""]

\* click on #create-vendor-bill-btn, which is inside the details panel
ClickCreateVendorBill ==
    /\ ~dom.detailsHidden
    /\ ~dom.createBtnDisabled
    /\ userActions < MaxUserActions
    /\ userActions' = userActions + 1
    /\ createVendorBill(currentInvoiceId)
    /\ UNCHANGED <<variant, currentInvoiceId, file, historyRows, up, srv, normVars, zohoVars>>

\* click on the create-bill button of a history row (main.js renders it for
\* rows with status 'parsed'; the other script renders none)
ClickRowCreateBill(id) ==
    /\ variant = "main"
    /\ historyRows[id] = "parsed"
    /\ userActions < MaxUserActions
    /\ userActions' = userActions + 1
    /\ currentInvoiceId' = StringId(id)
    /\ createVendorBill(StringId(id))
    /\ UNCHANGED <<variant, file, historyRows, up, srv, normVars, zohoVars>>

\* POST /create_vendor_bill/<id> at the server
SrvCreateVendorBill(id, success) ==
    /\ BagIn(Msg("bill", id, ""), net)
    /\ success => ReportedStatus(id) \in {"parsed", "completed"}
    /\ net' = Send(Receive(net, Msg("bill", id, "")),
                   Msg("bill", id, IF success THEN "ok" ELSE "error"))
    /\ srv' = IF success
              THEN [srv EXCEPT ![id].status = "completed", ![id].bills = @ + 1]
              ELSE srv
    /\ UNCHANGED <<userActions, variant, currentInvoiceId, file, dom, historyRows, up, normVars, zohoVars>>

\* the then-handler of createVendorBill, followed by its finally-handler
BillResponse(id, result) ==
    /\ result \in {"ok", "error"}
    /\ BagIn(Msg("bill", id, result), net)
    /\ LET bag == Receive(net, Msg("bill", id, result))
       IN  IF result = "ok"
           THEN /\ dom' = [showVendorBillStatus(
                              updateStepStatus(dom, "create", "complete"),
                              "success", "Vendor bill created successfully! ID: ...")
                           EXCEPT !.createBtnDisabled = FALSE]
                /\ net' = loadInvoiceHistory(bag)
           ELSE /\ dom' = [showVendorBillStatus(
                              updateStepStatus(dom, "create", "error"),
                              "error", "Error creating vendor bill: ...")
                           EXCEPT !.createBtnDisabled = FALSE]
                /\ net' = bag
    /\ UNCHANGED <<userActions, variant, currentInvoiceId, file, historyRows, up, srv, normVars, zohoVars>>

\* the request or its response is lost, or the answer is no JSON: the
\* catch handler, followed by the finally-handler
BillFailed(id) ==
    /\ \E m \in BagToSet(net) :
          /\ m.kind = "bill" /\ m.id = id
          /\ net' = Receive(net, m)
    /\ dom' = [showVendorBillStatus(updateStepStatus(dom, "create", "error"),
                                    "error", "An error occurred: ...")
               EXCEPT !.createBtnDisabled = FALSE]
    /\ UNCHANGED <<userActions, variant, currentInvoiceId, file, historyRows, up, srv, normVars, zohoVars>>

\* ---- deleting an invoice ----
\* click on the delete button of a row, confirmed: deleteInvoice(invoiceId)
ClickDelete(id) ==
    /\ historyRows[id] # "absent"
    /\ userActions < MaxUserActions
    /\ userActions' = userActions + 1
    /\ Room(0, 1)
    /\ net' = Send(net, Msg("delete", id, ""))
    /\ UNCHANGED <<variant, currentInvoiceId, file, dom, historyRows, up, srv, normVars, zohoVars>>

\* DELETE /invoices/<id> at the server
SrvDelete(id, success) ==
    /\ BagIn(Msg("delete", id, ""), net)
    /\ success => ReportedStatus(id) # "gone"
    /\ net' = Send(Receive(net, Msg("delete", id, "")),
                   Msg("delete", id, IF success THEN "ok" ELSE "error"))
    /\ srv' = IF success THEN [srv EXCEPT ![id].deleted = TRUE] ELSE srv
    /\ UNCHANGED <<userActions, variant, currentInvoiceId, file, dom, historyRows, up, normVars, zohoVars>>

\* the then-handler of deleteInvoice; currentInvoiceId === invoiceId compares
\* without conversion
DeleteResponse(id, result) ==
    /\ result \in {"ok", "error"}
    /\ BagIn(Msg("delete", id, result), net)
    /\ LET bag == Receive(net, Msg("delete", id, result))
       IN  IF result = "ok"
           THEN /\ net' = loadInvoiceHistory(bag)
                /\ LET d1 == showStatus(dom, "success", "Invoice deleted.")
                   IN  IF currentInvoiceId = RowId(id)
                       THEN /\ dom' = [resetProcessingUI(d1) EXCEPT !.detailsHidden = TRUE]
                            /\ currentInvoiceId' = NullId
                       ELSE /\ dom' = d1
                            /\ UNCHANGED currentInvoiceId
           ELSE /\ net' = bag
                /\ dom' = showStatus(dom, "error", "Error deleting invoice: ...")
                /\ UNCHANGED currentInvoiceId
    /\ UNCHANGED <<userActions, variant, file, historyRows, up, srv, normVars, zohoVars>>

\* the catch handler of deleteInvoice
DeleteFailed(id) ==
    /\ \E m \in BagToSet(net) :
          /\ m.kind = "delete" /\ m.id = id
          /\ net' = Receive(net, m)
    /\ dom' = showStatus(dom, "error", "An error occurred: ...")
    /\ UNCHANGED <<userActions, variant, currentInvoiceId, file, historyRows, up, srv, normVars, zohoVars>>

\* what the server does on its own
Server ==
    \/ \E u \in Uploads : SrvReceiveUpload(u) \/ SrvAnswerPoll(u)
    \/ \E id \in InvoiceIds :
          \/ SrvStartParse(id)
          \/ \E outcome \in VendorOutcomes :
                SrvCallPrimary(id, outcome) \/ SrvCallSecondary(id, outcome)

\* the uploads the form has sent or refused on the server's answer
Started == Cardinality({u \in Uploads : up[u].phase # "unused"})

\* what follows from a submit of the upload form, but for the timer ticks
UploadFlow ==
    \/ \E u \in Uploads :
          \/ UploadResponse(u)
          \/ UploadRejected(u)
          \/ UploadFailed(u)
          \/ \E status \in {"uploaded", "processing", "parsed", "completed", "error"} :
                PollResponse(u, status)
          \/ PollFailed(u)
          \/ ProcessingTimeout(u)
    \/ \E id \in InvoiceIds :
          \/ DetailsResponse(id)
          \/ \E json \in BOOLEAN : DetailsFailed(id, json)
    \/ HistoryResponse
    \/ HistoryFailed

\* the clicks on the history table
HistoryClicks ==
    \E id \in InvoiceIds :
        \/ ClickView(id)
        \/ ClickRowCreateBill(id)
        \/ ClickDelete(id)

\* what follows from a view
Views ==
    \E id \in InvoiceIds :
        \/ ViewResponse(id)
        \/ \E json \in BOOLEAN : ViewFailed(id, json)

\* what follows from a click that creates a vendor bill or deletes an invoice
BillsAndDeletes ==
    \E id \in InvoiceIds :
        \/ \E success \in BOOLEAN : SrvCreateVendorBill(id, success) \/ SrvDelete(id, success)
        \/ \E result \in {"ok", "error"} : BillResponse(id, result) \/ DeleteResponse(id, result)
        \/ BillFailed(id)
        \/ DeleteFailed(id)

\* an upload from the form to the end of its polling, the user doing nothing
\* but picking files and submitting
NextUpload ==
    \/ Server
    \/ \E f \in Files : userActions < MaxSelections /\ SelectFile(f)
    \/ Started < MaxPolledUploads /\ handleInvoiceUpload
    \/ UploadFlow
    \/ \E u \in Uploads : PollTick(u)

SpecUpload == Init /\ [][NextUpload]_vars

\* a fetch of the upload flow settles: its then-handler or its catch-handler runs
FetchSettles ==
    \/ HistoryResponse
    \/ HistoryFailed
    \/ \E id \in InvoiceIds :
          DetailsResponse(id) \/ \E json \in BOOLEAN : DetailsFailed(id, json)
    \/ \E u \in Uploads :
          \/ PollFailed(u)
          \/ \E status \in {"uploaded", "processing", "parsed", "completed", "error"} :
                PollResponse(u, status)

\* the browser runs a timeout callback that is due, and every fetch settles.
\* The callback is due all the time from the timeout on; the fairness is
\* strong because the model disables it while MaxInFlight requests are in
\* flight.
SpecUploadLive ==
    /\ SpecUpload
    /\ WF_vars(FetchSettles)
    /\ \A u \in Uploads : SF_vars(ProcessingTimeout(u))

\* the whole page; of each polling the first MaxTicks ticks are followed
Next ==
    \/ Server
    \/ \E f \in Files : userActions < MaxPageActions /\ SelectFile(f)
    \/ Started < MaxPolledUploads /\ handleInvoiceUpload
    \/ UploadFlow
    \/ \E u \in Uploads : up[u].pollCount < MaxTicks /\ PollTick(u)
    \/ userActions < MaxPageActions /\ HistoryClicks
    \/ userActions < MaxPageActions /\ ClickCreateVendorBill
    \/ Views
    \/ BillsAndDeletes

Spec == Init /\ [][Next]_vars

\* a user who uploads a file, deletes invoices and creates vendor bills
\* without looking at an invoice of the history
NextBill ==
    \/ Server
    \/ \E f \in Files : userActions < MaxSelections /\ SelectFile(f)
    \/ Started < MaxPolledUploads /\ handleInvoiceUpload
    \/ UploadFlow
    \/ \E u \in Uploads : up[u].pollCount < MaxTicks /\ PollTick(u)
    \/ \E id \in InvoiceIds : ClickDelete(id)
    \/ ClickCreateVendorBill
    \/ BillsAndDeletes

SpecBill == Init /\ [][NextBill]_vars

\* the upload form alone: submits one after the other, their responses, and
\* the parse at the server; no timer of an upload is followed
NextSubmit ==
    \/ \E f \in Files : userActions < MaxSelections /\ SelectFile(f)
    \/ handleInvoiceUpload
    \/ \E u \in Uploads :
          \/ SrvReceiveUpload(u)
          \/ UploadResponse(u)
          \/ UploadRejected(u)
          \/ UploadFailed(u)
    \/ \E id \in InvoiceIds :
          \/ SrvStartParse(id)
          \/ \E outcome \in VendorOutcomes :
                SrvCallPrimary(id, outcome) \/ SrvCallSecondary(id, outcome)
          \/ DetailsResponse(id)
          \/ \E json \in BOOLEAN : DetailsFailed(id, json)
    \/ HistoryResponse
    \/ HistoryFailed

SpecSubmit == Init /\ [][NextSubmit]_vars

(***************************************************************************)
(* Claims about the normalizers (checked under SpecNorm).                  *)
(***************************************************************************)
\* result is an invoice in the canonical shape for the raw line items li:
\* exactly the six keys, one entry per raw item, in the same order, each
\* entry with exactly the eight keys
Canonical(result, li) ==
    /\ result.state = "returned"
    /\ DOMAIN result.invoice = InvoiceKeys
    /\ LET out == result.invoice.line_items
       IN  /\ Len(out) = (IF li.isArray THEN Len(li.items) ELSE 0)
           /\ \A i \in 1..Len(out) :
                /\ DOMAIN out[i] = ItemKeys
                /\ out[i].description =
                      (IF Truthy(li.items[i].description)
                       THEN li.items[i].description ELSE Str(<<>>))

\* a description that extractFromDesc cannot search: truthy and no string
Unsearchable(item) == Truthy(item.description) /\ item.description.t # "string"

\* the raw line items on which the LlamaCloud normalizer throws a TypeError
LlamaRejects(li) ==
    /\ li.isArray
    /\ \E i \in 1..Len(li.items) :
          \/ li.items[i].nul
          \/ /\ Unsearchable(li.items[i])
             /\ ~Truthy(li.items[i].project_number) \/ ~Truthy(li.items[i].activity_code)

\* the raw line items on which the Eyelevel normalizer throws a TypeError
EyelevelRejects(li) ==
    /\ li.isArray
    /\ \E i \in 1..Len(li.items) :
          \/ li.items[i].nul
          \/ Unsearchable(li.items[i]) /\ ~Truthy(li.items[i].project_number)

\* C7 as stated: for every input object both normalizers return an invoice
\* with exactly the six keys, whose line_items has one entry per input line
\* item in the same order (none when line_items is no array), each entry
\* with exactly the eight keys.
C7_AlwaysCanonical ==
    /\ llamaResult # Pending => Canonical(llamaResult, llamaCloudData.line_items)
    /\ eyelevelResult # Pending => Canonical(eyelevelResult, eyelevelData.line_items)

\* C7 as amended: a normalizer throws exactly when line_items is an array
\* holding a null entry or an entry whose description is searched although
\* it is truthy and no string; on every other input it returns the
\* canonical invoice.
C7_CanonicalUnlessThrown ==
    /\ llamaResult # Pending =>
          IF LlamaRejects(llamaCloudData.line_items)
          THEN llamaResult = Threw
          ELSE Canonical(llamaResult, llamaCloudData.line_items)
    /\ eyelevelResult # Pending =>
          IF EyelevelRejects(eyelevelData.line_items)
          THEN eyelevelResult = Threw
          ELSE Canonical(eyelevelResult, eyelevelData.line_items)

\* both normalizers have returned an invoice with two line items, the first
\* of them without project number, activity code and description
C7_Witness ==
    /\ llamaResult.state = "returned"
    /\ eyelevelResult.state = "returned"
    /\ Len(llamaResult.invoice.line_items) = 2
    /\ Len(eyelevelResult.invoice.line_items) = 2
    /\ llamaCloudData.line_items.items[1].description = Undefined
    /\ llamaCloudData.line_items.items[1].project_number = Undefined
    /\ llamaCloudData.line_items.items[1].activity_code = Undefined
    /\ llamaCloudData.line_items.items[2].description # Undefined

\* C8 as stated: the two responses of a state carry the same invoice
\* information (vendor_name as vendor.name, invoice_date as date, identical
\* line items); once both are normalized the results are equal.
C8_EqualResults ==
    (llamaResult # Pending /\ eyelevelResult # Pending) =>
        llamaResult = eyelevelResult

(***************************************************************************)
(* Claims about the parse with fallback (checked under SpecUpload).        *)
(***************************************************************************)
CalledSecondary(r) == \E i \in DOMAIN r.calls : r.calls[i] = "secondary"
PrimaryFailed(r) == r.primary \in {"threw", "unusable"}
ParseEnded(r) == r.status \in {"parsed", "completed", "error"}

\* C1: the secondary vendor is called if and only if the call to the primary
\* vendor threw or returned an unusable response (never before the primary
\* has failed, and always by the time the parse has ended); the stored
\* response is the primary's exactly when the primary succeeded, and the
\* secondary's when the primary failed and the secondary succeeded.
C1_FallbackIffPrimaryFailed ==
    \A id \in InvoiceIds :
        LET r == srv[id]
        IN  /\ CalledSecondary(r) => PrimaryFailed(r)
            /\ ParseEnded(r) => (CalledSecondary(r) <=> PrimaryFailed(r))
            /\ r.stored = "primary" <=> r.primary = "ok"
            /\ r.stored = "secondary" <=> (PrimaryFailed(r) /\ r.secondary = "ok")
            /\ r.status \in {"parsed", "completed"} <=> r.stored # "none"
            /\ r.parser_used = (CASE r.stored = "primary" -> "LlamaCloud"
                                  [] r.stored = "secondary" -> "Eyelevel"
                                  [] OTHER -> "")

\* the uploaded invoice was parsed by the secondary vendor after the primary
\* returned an unusable response
C1_Witness ==
    \E u \in Uploads :
        /\ up[u].phase = "received"
        /\ srv[up[u].invoice].primary = "unusable"
        /\ srv[up[u].invoice].stored = "secondary"
        /\ srv[up[u].invoice].status = "parsed"

\* C2: for one invoice the primary vendor is called before the secondary and
\* each at most once, and when both have failed the invoice has status
\* 'error' and no vendor is called again.
C2_EachVendorOnce ==
    \A id \in InvoiceIds :
        LET r == srv[id]
        IN  /\ r.calls \in {<<>>, <<"primary">>, <<"primary", "secondary">>}
            /\ (PrimaryFailed(r) /\ r.secondary \in {"threw", "unusable"}) =>
                    r.status = "error"
            /\ r.status = "error" =>
                    /\ r.calls = <<"primary", "secondary">>
                    /\ \A outcome \in VendorOutcomes :
                          /\ ~ENABLED SrvCallPrimary(id, outcome)
                          /\ ~ENABLED SrvCallSecondary(id, outcome)

\* both vendors failed on the uploaded invoice, each called once
C2_Witness ==
    \E u \in Uploads :
        /\ up[u].phase = "received"
        /\ srv[up[u].invoice].calls = <<"primary", "secondary">>
        /\ srv[up[u].invoice].primary = "threw"
        /\ srv[up[u].invoice].secondary = "unusable"
        /\ srv[up[u].invoice].status = "error"

(***************************************************************************)
(* Claims about the upload flow (checked under SpecUpload).                *)
(***************************************************************************)
PollsInFlight(bag, u) ==
    {m \in BagToSet(bag) : m.kind = "poll" /\ m.id = u}

\* C3: an upload response that carries 'parsed' displays the invoice at once
\* and starts no timer; any other successful upload response starts the
\* polling of that invoice; a poll response with status 'parsed' or
\* 'completed' stops the polling, cancels the timeout, marks the parse step
\* complete and displays the polled invoice; a poll response with status
\* 'error' stops the polling, cancels the timeout and marks the parse step
\* as error.
C3_UploadThenPoll ==
    [][\A u \in Uploads :
        /\ UploadResponse(u) =>
              IF srv[up[u].invoice].status = "parsed"
              THEN /\ ~dom'.detailsHidden
                   /\ dom'.shown = up[u].invoice
                   /\ up'[u].pollingInterval = "unset"
                   /\ up'[u].processingTimeout = "unset"
                   /\ PollsInFlight(net', u) = {}
              ELSE /\ up'[u].pollingInterval = "active"
                   /\ up'[u].processingTimeout = "pending"
                   /\ up'[u].uploadedInvoiceId = up[u].invoice
        /\ PollTick(u) => net' = Send(net, Msg("poll", u, ""))
        /\ SrvAnswerPoll(u) =>
              \E m \in PollsInFlight(net', u) :
                  m.data = ReportedStatus(up[u].invoice)
        /\ (PollResponse(u, "parsed") \/ PollResponse(u, "completed")) =>
              /\ up'[u].pollingInterval = "cleared"
              /\ up'[u].processingTimeout # "pending"
              /\ dom'.classList["parse"] = {"step-complete"}
              /\ ~dom'.detailsHidden
              /\ dom'.shown = up[u].invoice
        /\ PollResponse(u, "error") =>
              /\ up'[u].pollingInterval = "cleared"
              /\ up'[u].processingTimeout # "pending"
              /\ dom'.classList["parse"] = {"step-error"}
      ]_vars

\* a poll response has ended the polling of an upload: the timeout is
\* cancelled, the parse step complete and the uploaded invoice on display
C3_Witness ==
    \E u \in Uploads :
        /\ up[u].pollingInterval = "cleared"
        /\ up[u].processingTimeout = "cleared"
        /\ dom.classList["parse"] = {"step-complete"}
        /\ ~dom.detailsHidden
        /\ dom.shown = up[u].invoice

\* C4: handleInvoiceUpload sends POST /upload only for a selected file of
\* type application/pdf, image/jpeg or image/png and of at most
\* 16*1024*1024 bytes, and it does send it for a file of exactly that size;
\* for every other file it shows an error message and sends nothing, and
\* the step indicators, the upload button and currentInvoiceId stay as
\* they are.
C4_ValidatedUpload ==
    [][handleInvoiceUpload =>
        LET accepted ==
                /\ file.present
                /\ file.type \in {"application/pdf", "image/jpeg", "image/png"}
                /\ file.size <= 16777216
            sent == \E u \in Uploads : up[u].phase = "unused" /\ up'[u].phase = "sent"
        IN  /\ sent <=> accepted
            /\ ~accepted =>
                  /\ dom'.uploadStatus.type = "error"
                  /\ dom'.uploadStatus.message # ""
                  /\ up' = up
                  /\ net' = net
                  /\ dom'.classList = dom.classList
                  /\ dom'.stepsHidden = dom.stepsHidden
                  /\ dom'.uploadBtnDisabled = dom.uploadBtnDisabled
                  /\ currentInvoiceId' = currentInvoiceId
      ]_vars

\* the upload of a file of exactly 16*1024*1024 bytes has been sent
C4_Witness ==
    \E u \in Uploads :
        /\ up[u].phase = "sent"
        /\ file.size = 16777216
        /\ dom.uploadBtnDisabled

\* C5: the timeout handler of an upload that is still being polled stops the
\* polling, marks the parse step as error, shows the timed-out message that
\* points to the invoice history, and reloads the history.
C5_TimeoutStopsPolling ==
    [][\A u \in Uploads :
        (ProcessingTimeout(u) /\ up[u].pollingInterval = "active") =>
            /\ up'[u].pollingInterval = "cleared"
            /\ dom'.classList["parse"] = {"step-error"}
            /\ dom'.uploadStatus =
                  [type |-> "error",
                   message |-> "Invoice processing timed out. Please check the invoice history for status updates."]
            /\ net' = Send(net, Msg("history", 0, ""))
      ]_vars

\* the timeout of an upload has fired after polls had been sent
C5_Witness ==
    \E u \in Uploads :
        /\ up[u].processingTimeout = "fired"
        /\ up[u].pollingInterval = "cleared"
        /\ PollsInFlight(net, u) # {}
        /\ dom.classList["parse"] = {"step-error"}

(***************************************************************************)
(* Claims about the whole page (checked under Spec).                       *)
(***************************************************************************)
BillRequests(bag) ==
    {m \in BagToSet(bag) : m.kind = "bill" /\ m.data = ""}

\* C6: a POST /create_vendor_bill/<id> is sent only by a step that is a
\* click on the Create Vendor Bill button or on the create-bill button of a
\* history row; no other handler sends one.
C6_BillOnlyOnClick ==
    [][(\E m \in BillRequests(net') : CopiesIn(m, net') > CopiesIn(m, net)) =>
            \/ ClickCreateVendorBill
            \/ \E id \in InvoiceIds : ClickRowCreateBill(id)
      ]_vars

\* a vendor bill request is in flight and the button is disabled
C6_Witness ==
    /\ BillRequests(net) # {}
    /\ dom.createBtnDisabled

\* C9 as stated: once the application has called updateStepStatus, each of
\* the three step elements carries exactly one step status class, the class
\* of the status set last on it.
C9_EveryStepOneClass ==
    (\E e \in Steps : dom.lastStatus[e] # "none") =>
        \A e \in Steps : dom.classList[e] = {"step-" \o dom.lastStatus[e]}

\* C9 as amended: a step element on which a status has been set carries
\* exactly one step status class, the class of the status set last on it; a
\* step element on which none has been set carries no step status class.
C9_OneClassPerSetStep ==
    \A e \in Steps :
        IF dom.lastStatus[e] = "none" THEN dom.classList[e] = {}
        ELSE dom.classList[e] = {"step-" \o dom.lastStatus[e]}

\* a bill is being created for an invoice whose parse step had been set
\* several times
C9_Witness ==
    /\ dom.lastStatus["upload"] = "complete"
    /\ dom.lastStatus["parse"] = "complete"
    /\ dom.lastStatus["create"] = "processing"
    /\ dom.classList["create"] = {"step-processing"}

\* C10 as stated: while the details panel shows an invoice with the badge
\* 'Fallback', that invoice was parsed by the secondary vendor.
C10_FallbackOnlyForSecondary ==
    (/\ ~dom.detailsHidden
     /\ dom.shown \in InvoiceIds
     /\ dom.parserUsed = "Eyelevel Fallback") =>
        srv[dom.shown].stored = "secondary"

(***************************************************************************)
(* Claims about the number of polls and the end of polling.                *)
(***************************************************************************)
\* C11: for one upload at most 20 status requests are issued: a poll request
\* is sent only by a tick of the upload's interval timer, the tick counts it
\* in pollCount, and pollCount never exceeds maxPolls, also when polls fail
\* or are answered late (checked under SpecUpload).
C11_AtMostMaxPolls ==
    /\ [](\A u \in Uploads : up[u].pollCount <= maxPolls)
    /\ [][\A u \in Uploads :
            CopiesIn(Msg("poll", u, ""), net') > CopiesIn(Msg("poll", u, ""), net) =>
                /\ PollTick(u)
                /\ up'[u].pollCount = up[u].pollCount + 1
                /\ CopiesIn(Msg("poll", u, ""), net') =
                      CopiesIn(Msg("poll", u, ""), net) + 1
         ]_vars

\* the twentieth poll of an upload is in flight, the polls before it failed,
\* and the interval timer is still running
C11_Witness ==
    \E u \in Uploads :
        /\ up[u].pollCount = maxPolls
        /\ up[u].pollingInterval = "active"
        /\ BagIn(Msg("poll", u, ""), net)
        /\ srv[up[u].invoice].status = "processing"

\* C12: every upload that starts polling stops polling, and when it stops
\* the parse step is complete or error, also when every poll fails or the
\* invoice never reaches a final status; a failed poll leaves the interval
\* timer and the timeout as they are (checked under SpecUploadLive).
C12_PollingStops ==
    /\ \A u \in Uploads :
          (up[u].pollingInterval = "active") ~>
              (/\ up[u].pollingInterval = "cleared"
               /\ dom.lastStatus["parse"] \in {"complete", "error"})
    /\ [][\A u \in Uploads :
            PollFailed(u) =>
                /\ up'[u].pollingInterval = up[u].pollingInterval
                /\ up'[u].processingTimeout = up[u].processingTimeout
                /\ dom' = dom
         ]_vars

\* the timeout has stopped the polling of an invoice that is still being
\* processed, after several polls of which the last is still unanswered
C12_Witness ==
    \E u \in Uploads :
        /\ up[u].processingTimeout = "fired"
        /\ up[u].pollingInterval = "cleared"
        /\ up[u].pollCount >= 2
        /\ BagIn(Msg("poll", u, ""), net)
        /\ srv[up[u].invoice].status = "processing"
        /\ dom.lastStatus["parse"] = "error"

(***************************************************************************)
(* Claims about the upload form (checked under SpecSubmit).                *)
(***************************************************************************)
InFlightUploads == {u \in Uploads : up[u].phase \in {"sent", "received"}}

\* C13: the upload button is disabled exactly while a POST /upload has been
\* sent and has not settled, so at most one upload request is in flight, and
\* once the request has settled, in whatever way, the button is enabled.
C13_ButtonDisabledWhileUploading ==
    /\ Cardinality(InFlightUploads) <= 1
    /\ dom.uploadBtnDisabled <=> InFlightUploads # {}

\* a second upload is in flight with the button disabled, after the first
\* upload failed before the server had stored an invoice
C13_Witness ==
    /\ up[1].phase = "settled"
    /\ up[1].invoice = 0
    /\ up[2].phase = "received"
    /\ dom.uploadBtnDisabled

\* C14 as stated: after a response with success=false and after a failed
\* upload request the details panel is hidden.
C14_PanelHiddenAfterFailure ==
    [][\A u \in Uploads :
          (UploadRejected(u) \/ UploadFailed(u)) => dom'.detailsHidden
      ]_vars

\* C14 as amended: a response with success=false marks the upload step
\* complete and the parse step error, a failed upload request marks the
\* upload step error; both start no polling and no timeout, send nothing,
\* and leave the details panel and currentInvoiceId as they are.
C14_FailedUploadChangesStepsOnly ==
    [][\A u \in Uploads :
          /\ UploadRejected(u) =>
                /\ dom'.classList["upload"] = {"step-complete"}
                /\ dom'.classList["parse"] = {"step-error"}
          /\ UploadFailed(u) =>
                /\ dom'.classList["upload"] = {"step-error"}
                /\ dom'.classList["parse"] = dom.classList["parse"]
          /\ (UploadRejected(u) \/ UploadFailed(u)) =>
                /\ up'[u].pollingInterval = "unset"
                /\ up'[u].processingTimeout = "unset"
                /\ net' = net
                /\ dom'.detailsHidden = dom.detailsHidden
                /\ dom'.shown = dom.shown
                /\ currentInvoiceId' = currentInvoiceId
                /\ dom'.uploadStatus.type = "error"
      ]_vars

\* the second upload was answered with success=false while the details
\* panel shows the invoice of the first upload, which is the current invoice
C14_Witness ==
    /\ up[2].phase = "settled"
    /\ up[2].invoice # 0
    /\ srv[up[2].invoice].status = "error"
    /\ up[2].pollingInterval = "unset"
    /\ dom.lastStatus["upload"] = "complete"
    /\ dom.lastStatus["parse"] = "error"
    /\ ~dom.detailsHidden
    /\ dom.shown = up[1].invoice
    /\ currentInvoiceId = NumberId(up[1].invoice)

(***************************************************************************)
(* Claims about creating vendor bills.                                     *)
(***************************************************************************)
ZohoInvoiceIds ==
    {Undefined, Null, NaN, Num(0), Str(<<>>), Num(1), Num(2), Str(<<"0">>), Str(<<"1">>)}

\* C15: a click on Create Vendor Bill while currentInvoiceId is null shows
\* 'No invoice selected.', sends nothing and leaves the create step, the
\* create button and currentInvoiceId as they are; ZohoAPI.createVendorBill
\* rejects with 'Invoice ID is required' and sends nothing when the invoice
\* id is undefined or null (or another falsy value), and sends the request
\* otherwise (checked under SpecBill).
C15_NoRequestWithoutInvoice ==
    /\ [][(ClickCreateVendorBill /\ currentInvoiceId = NullId) =>
            /\ dom'.vendorBillStatus =
                  [type |-> "error", message |-> "No invoice selected."]
            /\ net' = net
            /\ dom'.classList = dom.classList
            /\ dom'.lastStatus = dom.lastStatus
            /\ dom'.createBtnDisabled = dom.createBtnDisabled
            /\ currentInvoiceId' = NullId
         ]_vars
    /\ [](\A v \in ZohoInvoiceIds :
            /\ v \in {Undefined, Null} =>
                  ZohoCreateVendorBill(v) =
                      [fetched |-> FALSE, rejected |-> "Invoice ID is required"]
            /\ ZohoCreateVendorBill(v).fetched <=> Truthy(v)
            /\ ZohoCreateVendorBill(v).fetched <=> ZohoCreateVendorBill(v).rejected = "")

\* the user has clicked Create Vendor Bill on a panel that a late poll
\* response brought back after the uploaded invoice had been deleted
C15_Witness ==
    /\ currentInvoiceId = NullId
    /\ ~dom.detailsHidden
    /\ dom.vendorBillStatus = [type |-> "error", message |-> "No invoice selected."]
    /\ ~dom.createBtnDisabled
    /\ BillRequests(net) = {}

\* the create-vendor-bill requests that have not settled: requests on their
\* way to the server and answers on their way back
PendingBills(bag) ==
    BagCardinality([m \in {n \in BagToSet(bag) : n.kind = "bill"} |-> bag[m]])

\* C16: at most one create-vendor-bill request is in flight at any time
\* (no click on the main button or on a create-bill button of a history row
\* starts a second one while one is pending), and a step that settles a
\* request leaves the main button enabled.
C16_OneBillInFlight ==
    /\ [](PendingBills(net) <= 1)
    /\ [][PendingBills(net') < PendingBills(net) => ~dom'.createBtnDisabled]_vars

\* this step sends a POST /create_vendor_bill/<id>
BillRequestSent(id) ==
    CopiesIn(Msg("bill", id, ""), net') > CopiesIn(Msg("bill", id, ""), net)

\* C17: a create-vendor-bill request is sent only for an invoice whose last
\* status known to the client is 'parsed'.  The status of an invoice only
\* moves forward (uploaded, processing, parsed or error, completed), so the
\* claim implies: the row button is clicked on 'parsed' rows only, no
\* request is sent for an invoice the history table has shown as
\* 'completed' or 'error', and none for an invoice that has not yet been
\* parsed.
C17_BillOnlyForParsed ==
    [][\A id \in InvoiceIds :
          /\ ClickRowCreateBill(id) => historyRows[id] = "parsed"
          /\ BillRequestSent(id) =>
                /\ historyRows[id] \notin {"completed", "error"}
                /\ srv[id].status \notin {"uploaded", "processing"}
      ]_vars

(***************************************************************************)
(* Claims about the current invoice and the details panel.                 *)
(***************************************************************************)
\* C18: whenever the details panel is visible and holds an invoice, that
\* invoice is the one whose id is currentInvoiceId (a panel that was opened
\* for an invoice the server no longer has holds none and is left aside).
C18_PanelShowsCurrentInvoice ==
    (~dom.detailsHidden /\ dom.shown # 0) => dom.shown = currentInvoiceId.id

\* C19: the step that handles the successful answer of a delete request for
\* the invoice currentInvoiceId names (whether a number from an upload
\* response or a value set by viewInvoice or a history button) leaves
\* currentInvoiceId null and the details panel hidden.
C19_DeleteResetsCurrentInvoice ==
    [][\A id \in InvoiceIds :
          (DeleteResponse(id, "ok") /\ currentInvoiceId # NullId
                                    /\ currentInvoiceId.id = id) =>
              /\ currentInvoiceId' = NullId
              /\ dom'.detailsHidden
      ]_vars

\* C20: once displayInvoiceDetails has completed for the invoice on display
\* (its details request is answered), the raw OCR data section, if present,
\* holds the raw data of that invoice, never that of an invoice displayed
\* earlier, and its heading names the parser the data came from.
C20_RawSectionOfShownInvoice ==
    (/\ ~dom.detailsHidden
     /\ dom.shown # 0
     /\ dom.lineItems = "loaded"
     /\ ~BagIn(Msg("details", dom.shown, ""), net)
     /\ dom.rawOf # 0) =>
        /\ dom.rawOf = dom.shown
        /\ dom.rawHeading = RawParser(dom.rawOf)

(***************************************************************************)
(* Claims about the vendor bill data (checked under SpecZoho).             *)
(***************************************************************************)
\* C21: what formatVendorBillData returns has exactly the keys the Deluge
\* script reads; bill_number, date and total are the invoice's
\* invoice_number, invoice_date and total_amount, vendor_name and due_date
\* are passed on; line_items has one entry per line item of the invoice, in
\* the same order, with exactly name (the description), quantity, rate (the
\* unit_price) and tax, where tax is the item's tax, or 0 when the item has
\* none (or a falsy one); line_items is empty when the invoice has none.
C21_VendorBillFields ==
    vendorBillData.state = "returned" =>
        LET out == vendorBillData.invoice
            li == invoiceData.line_items
        IN  /\ DOMAIN out = DelugeInvoiceKeys
            /\ out.vendor_name = invoiceData.vendor_name
            /\ out.bill_number = invoiceData.invoice_number
            /\ out.date = invoiceData.invoice_date
            /\ out.due_date = invoiceData.due_date
            /\ out.total = invoiceData.total_amount
            /\ Len(out.line_items) = Len(li.items)
            /\ (~li.isArray \/ li.items = <<>>) => out.line_items = <<>>
            /\ \A i \in 1..Len(li.items) :
                  /\ DOMAIN out.line_items[i] = DelugeItemKeys
                  /\ out.line_items[i].name = li.items[i].description
                  /\ out.line_items[i].quantity = li.items[i].quantity
                  /\ out.line_items[i].rate = li.items[i].unit_price
                  /\ out.line_items[i].tax =
                        IF Truthy(li.items[i].tax) THEN li.items[i].tax ELSE Num(0)

\* an invoice with two line items, one with a tax and one without, has been
\* formatted
C21_Witness ==
    /\ vendorBillData.state = "returned"
    /\ Len(vendorBillData.invoice.line_items) = 2
    /\ invoiceData.line_items.items[1].tax = Undefined
    /\ vendorBillData.invoice.line_items[1].tax = Num(0)
    /\ vendorBillData.invoice.line_items[2].tax = Num(2)
    /\ vendorBillData.invoice.line_items[1].name # vendorBillData.invoice.line_items[2].name

\* C22: vendorBillCreate creates a VendorBills record only after the vendor
\* lookup returned a vendor; it returns success=true with a vendor_bill_id
\* only when the code of the create response is 0; and when no vendor was
\* found, when the code is not 0 or when a step raised an exception, it
\* returns success=false with an error.
C22_VendorBillCreateResult ==
    deluge # DelugeIdle =>
        /\ deluge.bill # NoBill => deluge.found
        /\ (deluge.state = "returned" /\ deluge.success) =>
                deluge.code = "0" /\ deluge.vendor_bill_id # 0
        /\ (~deluge.found \/ deluge.code = "other" \/ deluge.raised) =>
                /\ deluge.state = "returned"
                /\ ~deluge.success
                /\ deluge.error # ""

====
